---- MODULE Spec2Model ----
(***************************************************************************)
(* A model of midi-synths.js: MidiManager (Web MIDI access, device list,   *)
(* connected output) and BaseSynth (encoding of musical operations into    *)
(* MIDI bytes written to an output port, with the deferred note-off of     *)
(* playNote).                                                              *)
(*                                                                         *)
(* JavaScript numbers are modelled as rationals with denominator Scale:    *)
(* the model integer h stands for the number h / Scale, so that fractional *)
(* arguments exist and Math.floor is not the identity.                     *)
(***************************************************************************)
EXTENDS Integers, Sequences, FiniteSets

\* ------------------------------------------------------------------ bounds
Scale == 2
MaxPorts == 2
MaxPending == 2
MaxSynths == 1
MaxSent == 4
MaxOps == 2
Margin == 3
BendMargin == 2

\* ------------------------------------------------------- program constants
Null == 0
Undefined == -1
AccessHandle == 1
DataMax == 127
ChannelMin == 1
ChannelMax == 16
NoteOnStatus == 144
NoteOffStatus == 128
CCStatus == 176
ProgramChangeStatus == 192
PitchBendStatus == 224
BendMin == -8192
BendMax == 8191
BendCenter == 8192
SevenBits == 127
DefaultVelocity == 0

VARIABLES
    midiAccess,      \* MidiManager.midiAccess: Null or the access handle
    midiOutput,      \* MidiManager.midiOutput: Null or the connected port
    devices,         \* MidiManager.devices: sequence of ports
    onStateChange,   \* MidiManager.onStateChange: is a callback set
    onstatechange,   \* is the handler installed on the access object
    outputs,         \* the platform's output ports, in enumeration order
    pendingInit,     \* initialize() calls suspended at the await
    synths,          \* the BaseSynth objects constructed so far
    synthOutput,     \* BaseSynth.midiOutput of each synth
    channel,         \* BaseSynth.channel of each synth (a number)
    sent,            \* every write to a port, in order: [port, data]
    timers,          \* pending setTimeout tasks of playNote
    nextTimer,       \* the id the next setTimeout returns
    last,            \* the last call or event: [op, synth, arg, ret]
    connectSnapshot, \* devices at the connect that bound midiOutput
    cbEver,          \* has the change callback ever been invoked
    initOk,          \* has some initialize() returned true
    fired,           \* history of the timers that have fired
    fromManager,     \* synths constructed with the manager's connected port
    argA, argB, argChannel   \* the caller's numeric arguments (encoding specs)

mgrVars == <<midiAccess, midiOutput, devices, onStateChange, onstatechange,
             outputs, pendingInit, connectSnapshot, cbEver, initOk>>
synthVars == <<synths, synthOutput, channel, sent, timers, nextTimer, fired,
               fromManager>>
argVars == <<argA, argB, argChannel>>
vars == <<mgrVars, synthVars, argVars, last>>

\* ------------------------------------------------------------ JS numbers
\* The JavaScript number n (an integer) in the model's unit.
Num(n) == n * Scale

IsInteger(x) == x % Scale = 0

MathFloor(x) == (x \div Scale) * Scale

MathMax(a, b) == IF a >= b THEN a ELSE b

MathMin(a, b) == IF a <= b THEN a ELSE b

\* ToInt32 of a number within the 32-bit range: truncation toward zero.
ToInt32(x) == IF x >= 0 THEN x \div Scale ELSE -((-x) \div Scale)

\* n & mask, for a mask 2^k - 1, on two's complement integers.
BitAndMask(n, mask) == n % (mask + 1)

\* n >> 7 (arithmetic shift).
ShiftRight7(n) == n \div (SevenBits + 1)

Ports == 1..MaxPorts
SynthIds == 1..MaxSynths

Range(s) == {s[i] : i \in 1..Len(s)}

\* The sequences of distinct ports: what the platform may enumerate.
PortLists ==
    {s \in UNION {[1..n -> Ports] : n \in 0..MaxPorts} :
        \A i, j \in 1..Len(s) : i # j => s[i] # s[j]}

Call(op, s, arg, ret) == [op |-> op, synth |-> s, arg |-> arg, ret |-> ret]

\* ------------------------------------------------------------ MidiManager
\* Array.from(midiAccess.outputs.values()), or [] without access.
UpdateDeviceList(access, outs) == IF access # Null THEN outs ELSE <<>>

\* arr[i] of a JavaScript array: undefined outside 0..length-1.
ArrayGet(arr, i) == IF i >= 0 /\ i < Len(arr) THEN arr[i + 1] ELSE Undefined

\* connect without the lower bound of the range check.
ConnectResultNoLowerBound(deviceIndex) ==
    IF midiAccess = Null THEN FALSE
    ELSE deviceIndex < Len(devices)

\* What connect(deviceIndex) returns.
ConnectResult(deviceIndex) ==
    IF midiAccess = Null THEN FALSE
    ELSE deviceIndex >= 0 /\ deviceIndex < Len(devices)

IsConnected == midiOutput # Null

BoolStr(b) == IF b THEN "true" ELSE "false"

\* initialize() without the try/catch: the unsupported-platform error escapes.
InitializeUnsupportedThrows ==
    /\ last' = Call("initialize", 0, 0, "throws")
    /\ UNCHANGED <<mgrVars, synthVars, argVars>>

\* initialize() where navigator.requestMIDIAccess is missing: the throw is
\* caught in the same call, which returns false.
InitializeUnsupported ==
    /\ last' = Call("initialize", 0, 0, "false")
    /\ UNCHANGED <<mgrVars, synthVars, argVars>>

\* initialize() up to the await of navigator.requestMIDIAccess().
InitializeRequest ==
    /\ pendingInit < MaxPending
    /\ pendingInit' = pendingInit + 1
    /\ last' = Call("requestMIDIAccess", 0, 0, "pending")
    /\ UNCHANGED <<midiAccess, midiOutput, devices, onStateChange, onstatechange,
                   outputs, connectSnapshot, cbEver, initOk>>
    /\ UNCHANGED <<synthVars, argVars>>

\* The platform rejects the request: the catch block returns false.
InitializeDenied ==
    /\ pendingInit > 0
    /\ pendingInit' = pendingInit - 1
    /\ last' = Call("initialize", 0, 0, "false")
    /\ UNCHANGED <<midiAccess, midiOutput, devices, onStateChange, onstatechange,
                   outputs, connectSnapshot, cbEver, initOk>>
    /\ UNCHANGED <<synthVars, argVars>>

\* The platform grants the request: lines 28-36 run without suspension.
InitializeGranted ==
    /\ pendingInit > 0
    /\ pendingInit' = pendingInit - 1
    /\ midiAccess' = AccessHandle
    /\ devices' = UpdateDeviceList(AccessHandle, outputs)
    /\ onstatechange' = TRUE
    /\ initOk' = TRUE
    /\ last' = Call("initialize", 0, 0, "true")
    /\ UNCHANGED <<midiOutput, onStateChange, outputs, connectSnapshot, cbEver>>
    /\ UNCHANGED <<synthVars, argVars>>

\* What a handler run leaves in the record of the last event: how often it
\* invoked the callback and what getDevices() returned to the callback.
HandlerRun(calls, saw) ==
    [op |-> "statechange", synth |-> 0, ret |-> "true",
     arg |-> [calls |-> calls, saw |-> saw]]

\* The handler with its two statements swapped: call back, then rebuild.
StateChangeHandlerCallbackFirst ==
    LET rebuilt == UpdateDeviceList(midiAccess, outputs')
    IN  /\ devices' = rebuilt
        /\ IF onStateChange
             THEN last' = HandlerRun(1, devices) /\ cbEver' = TRUE
             ELSE last' = HandlerRun(0, <<>>) /\ UNCHANGED cbEver

\* The handler installed on the access object: rebuild, then call back.
StateChangeHandler ==
    LET rebuilt == UpdateDeviceList(midiAccess, outputs')
    IN  /\ devices' = rebuilt
        /\ IF onStateChange
             THEN last' = HandlerRun(1, rebuilt) /\ cbEver' = TRUE
             ELSE last' = HandlerRun(0, <<>>) /\ UNCHANGED cbEver

\* The platform reports a device added or removed.
StateChange(newOutputs) ==
    /\ newOutputs # outputs
    /\ outputs' = newOutputs
    /\ IF onstatechange
         THEN StateChangeHandler
         ELSE /\ last' = Call("statechange", 0, 0, "false")
              /\ UNCHANGED <<devices, cbEver>>
    /\ UNCHANGED <<midiAccess, midiOutput, onStateChange, onstatechange,
                   pendingInit, connectSnapshot, initOk>>
    /\ UNCHANGED <<synthVars, argVars>>

\* The caller sets or clears the onStateChange callback.
SetOnStateChange(cb) ==
    /\ cb # onStateChange
    /\ onStateChange' = cb
    /\ last' = Call("setOnStateChange", 0, 0, "undefined")
    /\ UNCHANGED <<midiAccess, midiOutput, devices, onstatechange, outputs,
                   pendingInit, connectSnapshot, cbEver, initOk>>
    /\ UNCHANGED <<synthVars, argVars>>

Connect(deviceIndex) ==
    /\ IF ConnectResult(deviceIndex)
         THEN /\ midiOutput' = ArrayGet(devices, deviceIndex)
              /\ connectSnapshot' = devices
         ELSE UNCHANGED <<midiOutput, connectSnapshot>>
    /\ last' = Call("connect", 0, deviceIndex, BoolStr(ConnectResult(deviceIndex)))
    /\ UNCHANGED <<midiAccess, devices, onStateChange, onstatechange, outputs,
                   pendingInit, cbEver, initOk>>
    /\ UNCHANGED <<synthVars, argVars>>

\* disconnect that clears the connection only while the port is still listed.
DisconnectIfListed ==
    /\ midiOutput' = IF midiOutput \in Range(devices) THEN Null ELSE midiOutput
    /\ connectSnapshot' = IF midiOutput \in Range(devices) THEN <<>> ELSE connectSnapshot
    /\ last' = Call("disconnect", 0, 0, "undefined")
    /\ UNCHANGED <<midiAccess, devices, onStateChange, onstatechange, outputs,
                   pendingInit, cbEver, initOk>>
    /\ UNCHANGED <<synthVars, argVars>>

\* disconnect that also clears the port of every synth bound to it.
DisconnectUnbindsSynths ==
    /\ midiOutput' = Null
    /\ connectSnapshot' = <<>>
    /\ synthOutput' = [s \in SynthIds |->
                         IF synthOutput[s] = midiOutput THEN Null ELSE synthOutput[s]]
    /\ last' = Call("disconnect", 0, 0, "undefined")
    /\ UNCHANGED <<midiAccess, devices, onStateChange, onstatechange, outputs,
                   pendingInit, cbEver, initOk>>
    /\ UNCHANGED <<synths, channel, sent, timers, nextTimer, fired, fromManager>>
    /\ UNCHANGED argVars

Disconnect ==
    /\ midiOutput' = Null
    /\ connectSnapshot' = <<>>
    /\ last' = Call("disconnect", 0, 0, "undefined")
    /\ UNCHANGED <<midiAccess, devices, onStateChange, onstatechange, outputs,
                   pendingInit, cbEver, initOk>>
    /\ UNCHANGED <<synthVars, argVars>>

\* The indices a caller may pass to connect: in range and out of range.
Indices == (0 - 2)..(MaxPorts + 1)

InitManager ==
    /\ midiAccess = Null
    /\ midiOutput = Null
    /\ devices = <<>>
    /\ onStateChange = FALSE
    /\ onstatechange = FALSE
    /\ pendingInit = 0
    /\ connectSnapshot = <<>>
    /\ cbEver = FALSE
    /\ initOk = FALSE

InitSynths ==
    /\ synths = {}
    /\ synthOutput = [s \in SynthIds |-> Null]
    /\ channel = [s \in SynthIds |-> 0]
    /\ sent = <<>>
    /\ timers = {}
    /\ nextTimer = 1
    /\ fired = {}
    /\ fromManager = {}

InitArgs == argA = 0 /\ argB = 0 /\ argChannel = 0

InitLast == last = Call("new", 0, 0, "undefined")

NextManager ==
    \/ InitializeUnsupported
    \/ InitializeRequest
    \/ InitializeDenied
    \/ InitializeGranted
    \/ \E o \in PortLists : StateChange(o)
    \/ \E cb \in BOOLEAN : SetOnStateChange(cb)
    \/ \E i \in Indices : Connect(i)
    \/ Disconnect

\* The state after new MidiManager(), on any platform.
InitSpecManager ==
    outputs \in PortLists /\ InitManager /\ InitSynths /\ InitArgs /\ InitLast

SpecManager == InitSpecManager /\ [][NextManager]_vars

\* -------------------------------------------------------------- BaseSynth
\* !x for a port reference: null and undefined are falsy.
Falsy(x) == x = Null \/ x = Undefined

\* Math.max(1, Math.min(16, channel)) - 1
StoredChannel(raw) ==
    MathMax(Num(ChannelMin), MathMin(Num(ChannelMax), raw)) - Num(1)

\* The clamp of a data byte with Math.floor left out.
Clamp127NoFloor(x) == MathMax(Num(0), MathMin(Num(DataMax), x))

\* Math.max(0, Math.min(127, Math.floor(x)))
Clamp127(x) == MathMax(Num(0), MathMin(Num(DataMax), MathFloor(x)))

NoteOnBytes(ch, note, velocity) ==
    <<Num(NoteOnStatus) + ch, Clamp127(note), Clamp127(velocity)>>

NoteOffBytes(ch, note, velocity) ==
    <<Num(NoteOffStatus) + ch, Clamp127(note), Clamp127(velocity)>>

CCBytes(ch, controller, value) ==
    <<Num(CCStatus) + ch, Clamp127(controller), Clamp127(value)>>

ProgramChangeBytes(ch, program) ==
    <<Num(ProgramChangeStatus) + ch, Clamp127(program)>>

\* The pitch bend bytes with the high byte taken from bit 8 up.
PitchBendBytesShift8(ch, value) ==
    LET clampedValue ==
            MathMax(Num(BendMin), MathMin(Num(BendMax), MathFloor(value)))
                + Num(BendCenter)
        lsb == BitAndMask(ToInt32(clampedValue), SevenBits)
        msb == BitAndMask(ToInt32(clampedValue) \div (2 * (SevenBits + 1)), SevenBits)
    IN  <<Num(PitchBendStatus) + ch, Num(lsb), Num(msb)>>

PitchBendBytes(ch, value) ==
    LET clampedValue ==
            MathMax(Num(BendMin), MathMin(Num(BendMax), MathFloor(value)))
                + Num(BendCenter)
        lsb == BitAndMask(ToInt32(clampedValue), SevenBits)
        msb == BitAndMask(ShiftRight7(ToInt32(clampedValue)), SevenBits)
    IN  <<Num(PitchBendStatus) + ch, Num(lsb), Num(msb)>>

\* midiOutput.send(data) on port p.
PortSend(p, data) == Append(sent, [port |-> p, data |-> data])

\* The log keeps room for the note-off of every pending timer.
HasRoom(n) == Len(sent) + Cardinality(timers) + n <= MaxSent

\* new BaseSynth(port, rawChannel)
Construct(s, port, rawChannel) ==
    /\ s \notin synths
    /\ s = Cardinality(synths) + 1
    /\ synths' = synths \cup {s}
    /\ synthOutput' = [synthOutput EXCEPT ![s] = port]
    /\ channel' = [channel EXCEPT ![s] = StoredChannel(rawChannel)]
    /\ last' = Call("new", s, rawChannel, "undefined")
    /\ UNCHANGED <<sent, timers, nextTimer, fired, fromManager>>
    /\ UNCHANGED <<mgrVars, argVars>>

\* new BaseSynth(manager.midiOutput, rawChannel)
ConstructFromManager(s, rawChannel) ==
    /\ s \notin synths
    /\ s = Cardinality(synths) + 1
    /\ synths' = synths \cup {s}
    /\ synthOutput' = [synthOutput EXCEPT ![s] = midiOutput]
    /\ channel' = [channel EXCEPT ![s] = StoredChannel(rawChannel)]
    /\ fromManager' = IF Falsy(midiOutput) THEN fromManager ELSE fromManager \cup {s}
    /\ last' = Call("new", s, rawChannel, "undefined")
    /\ UNCHANGED <<sent, timers, nextTimer, fired>>
    /\ UNCHANGED <<mgrVars, argVars>>

\* The caller assigns the synth's public midiOutput field.
Rebind(s, port) ==
    /\ s \in synths
    /\ port # synthOutput[s]
    /\ synthOutput' = [synthOutput EXCEPT ![s] = port]
    /\ last' = Call("rebind", s, port, "undefined")
    /\ UNCHANGED <<synths, channel, sent, timers, nextTimer, fired, fromManager>>
    /\ UNCHANGED <<mgrVars, argVars>>

\* A method that returns at its guard, or else writes one message.
GuardedSend(s, data) ==
    IF Falsy(synthOutput[s])
      THEN UNCHANGED sent
      ELSE HasRoom(1) /\ sent' = PortSend(synthOutput[s], data)

NoteOn(s, note, velocity) ==
    /\ s \in synths
    /\ GuardedSend(s, NoteOnBytes(channel[s], note, velocity))
    /\ last' = Call("noteOn", s, <<note, velocity>>, "undefined")
    /\ UNCHANGED <<synths, synthOutput, channel, timers, nextTimer, fired, fromManager>>
    /\ UNCHANGED <<mgrVars, argVars>>

NoteOff(s, note, velocity) ==
    /\ s \in synths
    /\ GuardedSend(s, NoteOffBytes(channel[s], note, velocity))
    /\ last' = Call("noteOff", s, <<note, velocity>>, "undefined")
    /\ UNCHANGED <<synths, synthOutput, channel, timers, nextTimer, fired, fromManager>>
    /\ UNCHANGED <<mgrVars, argVars>>

SendCC(s, controller, value) ==
    /\ s \in synths
    /\ GuardedSend(s, CCBytes(channel[s], controller, value))
    /\ last' = Call("sendCC", s, <<controller, value>>, "undefined")
    /\ UNCHANGED <<synths, synthOutput, channel, timers, nextTimer, fired, fromManager>>
    /\ UNCHANGED <<mgrVars, argVars>>

SendProgramChange(s, program) ==
    /\ s \in synths
    /\ GuardedSend(s, ProgramChangeBytes(channel[s], program))
    /\ last' = Call("sendProgramChange", s, <<program>>, "undefined")
    /\ UNCHANGED <<synths, synthOutput, channel, timers, nextTimer, fired, fromManager>>
    /\ UNCHANGED <<mgrVars, argVars>>

SendPitchBend(s, value) ==
    /\ s \in synths
    /\ GuardedSend(s, PitchBendBytes(channel[s], value))
    /\ last' = Call("sendPitchBend", s, <<value>>, "undefined")
    /\ UNCHANGED <<synths, synthOutput, channel, timers, nextTimer, fired, fromManager>>
    /\ UNCHANGED <<mgrVars, argVars>>

SendRawMIDI(s, data) ==
    /\ s \in synths
    /\ GuardedSend(s, data)
    /\ last' = Call("sendRawMIDI", s, data, "undefined")
    /\ UNCHANGED <<synths, synthOutput, channel, timers, nextTimer, fired, fromManager>>
    /\ UNCHANGED <<mgrVars, argVars>>

\* The task setTimeout schedules: it closes over the synth and the note.
\* onIdx records where the call's note-on went in the log.
NewTimer(s, note) ==
    [id |-> nextTimer, synth |-> s, note |-> note, onIdx |-> Len(sent) + 1]

\* playNote that reuses the pending timer of the same synth and note.
PlayNoteCoalescing(s, note, velocity) ==
    /\ s \in synths
    /\ IF Falsy(synthOutput[s])
         THEN UNCHANGED <<sent, timers, nextTimer>>
         ELSE /\ HasRoom(2)
              /\ sent' = PortSend(synthOutput[s], NoteOnBytes(channel[s], note, velocity))
              /\ IF \E t \in timers : t.synth = s /\ t.note = note
                   THEN UNCHANGED <<timers, nextTimer>>
                   ELSE /\ timers' = timers \cup {NewTimer(s, note)}
                        /\ nextTimer' = nextTimer + 1
    /\ last' = Call("playNote", s, <<note, velocity>>, "undefined")
    /\ UNCHANGED <<synths, synthOutput, channel, fired, fromManager>>
    /\ UNCHANGED <<mgrVars, argVars>>

\* playNote without its own guard: noteOn returns at its guard, the timer
\* is scheduled all the same.
PlayNoteUnguarded(s, note, velocity) ==
    /\ s \in synths
    /\ HasRoom(2)
    /\ GuardedSend(s, NoteOnBytes(channel[s], note, velocity))
    /\ timers' = timers \cup {NewTimer(s, note)}
    /\ nextTimer' = nextTimer + 1
    /\ last' = Call("playNote", s, <<note, velocity>>, "undefined")
    /\ UNCHANGED <<synths, synthOutput, channel, fired, fromManager>>
    /\ UNCHANGED <<mgrVars, argVars>>

\* playNote(note, velocity, duration): the duration only orders the timers,
\* which fire in any order here.
PlayNote(s, note, velocity) ==
    /\ s \in synths
    /\ IF Falsy(synthOutput[s])
         THEN UNCHANGED <<sent, timers, nextTimer>>
         ELSE /\ HasRoom(2)
              /\ sent' = PortSend(synthOutput[s], NoteOnBytes(channel[s], note, velocity))
              /\ timers' = timers \cup {NewTimer(s, note)}
              /\ nextTimer' = nextTimer + 1
    /\ last' = Call("playNote", s, <<note, velocity>>, "undefined")
    /\ UNCHANGED <<synths, synthOutput, channel, fired, fromManager>>
    /\ UNCHANGED <<mgrVars, argVars>>

\* The deferred task of playNote runs: if (this.midiOutput) this.noteOff(note, 0).
TimerFire(t) ==
    /\ t \in timers
    /\ timers' = timers \ {t}
    /\ IF Falsy(synthOutput[t.synth])
         THEN UNCHANGED sent
         ELSE sent' = PortSend(synthOutput[t.synth],
                               NoteOffBytes(channel[t.synth], t.note, Num(DefaultVelocity)))
    /\ fired' = fired \cup
         {[id |-> t.id, synth |-> t.synth, note |-> t.note, onIdx |-> t.onIdx,
           offIdx |-> IF Falsy(synthOutput[t.synth]) THEN 0 ELSE Len(sent) + 1]}
    /\ last' = Call("timer", t.synth, <<t.note>>, "undefined")
    /\ UNCHANGED <<synths, synthOutput, channel, nextTimer, fromManager>>
    /\ UNCHANGED <<mgrVars, argVars>>

\* ------------------------------------------------------ the caller's inputs
RawChannels == {Num(1), Num(10)}
Notes == {Num(60), Num(200)}
Velocities == {Num(100)}

\* Every send operation, on bound and unbound synths.
NextSynth ==
    \/ \E s \in SynthIds, p \in {Null, 1} :
          Len(sent) < MaxOps /\ Construct(s, p, Num(10))
    \/ \E s \in SynthIds, p \in {Null, 1} :
          Len(sent) < MaxOps /\ Rebind(s, p)
    \/ \E s \in SynthIds, n \in Notes :
          Len(sent) < MaxOps /\ NoteOn(s, n, Num(100))
    \/ \E s \in SynthIds :
          Len(sent) < MaxOps /\ NoteOff(s, Num(60), Num(DefaultVelocity))
    \/ \E s \in SynthIds, n \in Notes :
          Len(sent) < MaxOps /\ PlayNote(s, n, Num(100))
    \/ \E s \in SynthIds :
          Len(sent) < MaxOps /\ SendCC(s, Num(7), Num(130))
    \/ \E s \in SynthIds :
          Len(sent) < MaxOps /\ SendProgramChange(s, Num(200))
    \/ \E s \in SynthIds :
          Len(sent) < MaxOps /\ SendPitchBend(s, Num(0))
    \/ \E s \in SynthIds :
          Len(sent) < MaxOps /\ SendRawMIDI(s, <<Num(255)>>)
    \/ \E t \in timers :
          Len(sent) < MaxOps /\ TimerFire(t)

\* No synth constructed yet; the manager plays no part.
InitSynthOnly ==
    outputs = <<>> /\ InitManager /\ InitSynths /\ InitArgs /\ InitLast

SpecSynth == InitSynthOnly /\ [][NextSynth]_vars

\* playNote and its timers, with the synth's port rebound in between.
NextPlay ==
    \/ \E s \in SynthIds : Construct(s, 1, Num(10))
    \/ \E s \in SynthIds, p \in {Null, 1} : Rebind(s, p)
    \/ \E s \in SynthIds, n \in Notes, v \in Velocities : PlayNote(s, n, v)
    \/ \E t \in timers : TimerFire(t)

SpecPlay == InitSynthOnly /\ [][NextPlay]_vars

\* One call of an encoding method with the arguments drawn at the start:
\* every number in and around the data range in one argument, samples in
\* the other.
DataInputs == (Num(0 - Margin))..Num(DataMax + Margin) \cup {Num(200), Num(0 - 5)}
DataSamples ==
    {Num(0 - 1), 0 - 1, 0, 1, Num(100), Num(DataMax), Num(DataMax) + 1,
     Num(DataMax + 1)}
ChannelInputs ==
    {Num(0 - 5), Num(0), Num(1), Num(1) + 1, Num(10), Num(16), Num(16) + 1, Num(17)}

InitEncode ==
    /\ outputs = <<>> /\ InitManager /\ InitSynths /\ InitLast
    /\ \/ argA \in DataInputs /\ argB \in DataSamples
       \/ argA \in DataSamples /\ argB \in DataInputs
    /\ argChannel \in ChannelInputs

NextEncode ==
    \/ Construct(1, 1, argChannel)
    \/ sent = <<>> /\ NoteOn(1, argA, argB)
    \/ sent = <<>> /\ NoteOff(1, argA, argB)
    \/ sent = <<>> /\ SendCC(1, argA, argB)
    \/ sent = <<>> /\ SendProgramChange(1, argA)

SpecEncode == InitEncode /\ [][NextEncode]_vars

\* One sendPitchBend call with every value in and around the bend range.
BendInputs == Num(BendMin - BendMargin)..Num(BendMax + BendMargin)

InitBend ==
    /\ outputs = <<>> /\ InitManager /\ InitSynths /\ InitLast
    /\ argA \in BendInputs /\ argB = 0
    /\ argChannel \in RawChannels

NextBend ==
    \/ Construct(1, 1, argChannel)
    \/ sent = <<>> /\ SendPitchBend(1, argA)

SpecBend == InitBend /\ [][NextBend]_vars

\* The manager and the synths together: synths are constructed with the
\* manager's connected port, as the caller composes them, on a platform
\* whose port list stays as it was found.
NextSystem ==
    \/ InitializeRequest
    \/ InitializeGranted
    \/ \E i \in 0..(MaxPorts - 1) : Connect(i)
    \/ Disconnect
    \/ \E s \in SynthIds : ConstructFromManager(s, Num(1))
    \/ \E s \in SynthIds : Len(sent) < MaxOps /\ NoteOn(s, Num(60), Num(100))
    \/ \E s \in SynthIds : Len(sent) < MaxOps /\ PlayNote(s, Num(60), Num(100))
    \/ \E t \in timers : TimerFire(t)

SpecSystem == InitSpecManager /\ [][NextSystem]_vars

\* --------------------------------------------------------- BaseSynth claims
\* floor(x) saturated to 0 below and 127 above, stated without Math.floor.
ExpectedByte(x) ==
    IF x < 0 THEN 0
    ELSE IF x >= Num(DataMax + 1) THEN Num(DataMax)
    ELSE x - (x % Scale)

\* C2: every data byte noteOn, noteOff, sendCC and sendProgramChange write
\* is an integer in [0,127], equal to floor(input) saturated to 0 and 127,
\* whatever the input.
C2_DataBytesClamped ==
    \A i \in 1..Len(sent) :
        LET d == sent[i].data
        IN  /\ \A k \in 2..Len(d) :
                  IsInteger(d[k]) /\ d[k] >= 0 /\ d[k] <= Num(127)
            /\ d[2] = ExpectedByte(argA)
            /\ IF last.op = "sendProgramChange"
                 THEN Len(d) = 2
                 ELSE Len(d) = 3 /\ d[3] = ExpectedByte(argB)

\* C2 witness: sendProgramChange(200) wrote the single data byte 127.
C2_Witness ==
    /\ last.op = "sendProgramChange" /\ argA = Num(200)
    /\ Len(sent) = 1 /\ Len(sent[1].data) = 2 /\ sent[1].data[2] = Num(127)

Composite(d) == d[2] + 128 * d[3]

\* C3: sendPitchBend(v) writes [0xE0+ch, lsb, msb], both in [0,127], with
\* lsb + 128*msb = v + 8192 for every integer v in [-8192,8191], 0 for
\* v < -8192 and 16383 for v > 8191.
C3_PitchBendSplit ==
    \A i \in 1..Len(sent) :
        LET d == sent[i].data
        IN  /\ Len(d) = 3
            /\ d[1] = Num(224) + channel[1]
            /\ \A k \in 2..3 : IsInteger(d[k]) /\ d[k] >= 0 /\ d[k] <= Num(127)
            /\ (IsInteger(argA) /\ argA >= Num(0 - 8192) /\ argA <= Num(8191))
                  => Composite(d) = argA + Num(8192)
            /\ argA < Num(0 - 8192) => Composite(d) = 0
            /\ argA > Num(8191) => Composite(d) = Num(16383)

\* C3 witness: sendPitchBend(100) wrote lsb 100 and msb 64.
C3_Witness ==
    /\ last.op = "sendPitchBend" /\ argA = Num(100)
    /\ Len(sent) = 1 /\ sent[1].data[2] = Num(100) /\ sent[1].data[3] = Num(64)

StatusOf(op) ==
    CASE op = "noteOn" -> 144
      [] op = "noteOff" -> 128
      [] op = "sendCC" -> 176
      [] op = "sendProgramChange" -> 192
      [] op = "sendPitchBend" -> 224

\* C4 as stated: a synth constructed with raw channel c stores
\* clamp(c, 1, 16) - 1, an integer in [0,15], and every status byte it
\* writes is the operation's type value plus that channel.
C4_StoredChannel ==
    \A s \in synths :
        /\ channel[s] =
             (IF argChannel < Num(1) THEN Num(1)
              ELSE IF argChannel > Num(16) THEN Num(16) ELSE argChannel) - Num(1)
        /\ IsInteger(channel[s])
        /\ channel[s] >= Num(0) /\ channel[s] <= Num(15)
        /\ \A i \in 1..Len(sent) :
              /\ sent[i].data[1] = Num(StatusOf(last.op)) + channel[s]
              /\ IsInteger(sent[i].data[1])

SendOps ==
    {"noteOn", "noteOff", "playNote", "sendCC", "sendProgramChange",
     "sendPitchBend", "sendRawMIDI"}

\* C5: on a synth whose port is null every send operation writes nothing,
\* raises nothing, schedules no note-off and leaves the synth unchanged.
C5_UnboundSendsNothing ==
    [][(last'.op \in SendOps /\ synthOutput[last'.synth] = Null)
       => (/\ last'.ret = "undefined"
           /\ UNCHANGED <<sent, timers, nextTimer, synths, synthOutput, channel>>)]_vars

\* C5 witness: playNote has been called on a synth that had written to its
\* port and whose port is null now; no timer is pending.
C5_Witness ==
    /\ last.op = "playNote" /\ last.synth \in synths
    /\ synthOutput[last.synth] = Null
    /\ sent # <<>> /\ timers = {}

\* C6: playNote on a bound synth writes the note-on at once and creates
\* exactly one one-shot task; the task, when it runs, writes noteOff(note, 0)
\* on the same channel iff the port is bound then; a playNote's note-on
\* precedes its note-off, and overlapping calls each get their own note-off.
C6_PlayNote ==
    /\ [][(last'.op = "playNote" /\ synthOutput[last'.synth] # Null)
          => LET s == last'.synth
             IN  /\ sent' = Append(sent,
                       [port |-> synthOutput[s],
                        data |-> <<Num(144) + channel[s], ExpectedByte(last'.arg[1]),
                                   ExpectedByte(last'.arg[2])>>])
                 /\ timers \subseteq timers'
                 /\ Cardinality(timers') = Cardinality(timers) + 1]_vars
    /\ [][last'.op = "timer"
          => LET s == last'.synth
             IN  /\ timers' \subseteq timers
                 /\ Cardinality(timers') = Cardinality(timers) - 1
                 /\ IF synthOutput[s] # Null
                      THEN sent' = Append(sent,
                               [port |-> synthOutput[s],
                                data |-> <<Num(128) + channel[s],
                                           ExpectedByte(last'.arg[1]), 0>>])
                      ELSE sent' = sent]_vars
    /\ [](\A f \in fired :
            /\ f.offIdx # 0 =>
                 /\ f.onIdx < f.offIdx
                 /\ sent[f.onIdx].data[1] = Num(144) + channel[f.synth]
                 /\ sent[f.onIdx].data[2] = ExpectedByte(f.note)
                 /\ sent[f.offIdx].data =
                      <<Num(128) + channel[f.synth], ExpectedByte(f.note), 0>>
            /\ \A g \in fired :
                 (f.id # g.id /\ f.offIdx # 0) => f.offIdx # g.offIdx)

\* C6 witness: two overlapping playNote calls for the same note on the same
\* synth have both had their note-off written.
C6_Witness ==
    \E f, g \in fired :
        /\ f.id # g.id /\ f.synth = g.synth /\ f.note = g.note
        /\ f.offIdx # 0 /\ g.offIdx # 0
        /\ f.onIdx < g.offIdx /\ g.onIdx < f.offIdx

\* ------------------------------------------------------ MidiManager claims
managerState == <<midiAccess, midiOutput, devices, onStateChange, onstatechange>>

\* C1: connect(index) returns false and leaves the connected port and the
\* available list (and the rest of the manager) unchanged whenever index is
\* out of range or no initialize() has ever completed successfully.
C1_ConnectRejects ==
    [][(/\ last'.op = "connect"
        /\ (~initOk \/ last'.arg < 0 \/ last'.arg >= Len(devices)))
       => (last'.ret = "false" /\ UNCHANGED managerState)]_vars

\* C1 witness: an out-of-range connect was rejected on an initialized manager
\* that holds a connection and a non-empty list.
C1_Witness ==
    /\ last.op = "connect" /\ last.ret = "false"
    /\ initOk /\ midiOutput # Null /\ devices # <<>>
    /\ last.arg >= Len(devices)

InitializeFailed == last.op = "initialize" /\ last.ret # "true"

\* C8 as stated: whenever initialize() fails, the manager is empty afterwards
\* (no devices, no access handle, every connect refused), also when an
\* earlier initialize() had succeeded.
C8_FailedInitializeLeavesEmpty ==
    InitializeFailed =>
        /\ last.ret = "false"
        /\ devices = <<>>
        /\ midiAccess = Null
        /\ \A i \in Indices : ~ConnectResult(i)

\* C8 amended: a failing initialize() returns false, lets no exception
\* escape and leaves the manager's state exactly as it was before the call;
\* the state is therefore empty when no earlier initialize() had succeeded.
C8_FailedInitializeChangesNothing ==
    /\ [][(last'.op = "initialize" /\ last'.ret # "true")
          => (last'.ret = "false" /\ UNCHANGED managerState)]_vars
    /\ [](InitializeFailed /\ ~initOk =>
            /\ devices = <<>>
            /\ midiAccess = Null
            /\ \A i \in Indices : ~ConnectResult(i))

\* C8 witness: an initialize() has failed after an earlier one succeeded, and
\* the devices of the earlier access are still listed.
C8_Witness == InitializeFailed /\ initOk /\ devices # <<>> /\ midiAccess # Null

\* C9: after a successful initialize() every platform event rebuilds the
\* list to the platform's current ports and only then invokes the callback,
\* once, if one is set; no callback runs before an initialize() has
\* succeeded, and an event with no callback set still rebuilds the list.
C9_RebuildThenCallback ==
    /\ (last.op = "statechange" /\ initOk) => last.ret = "true"
    /\ (last.op = "statechange" /\ last.ret = "true") =>
          /\ devices = outputs
          /\ last.arg.calls = IF onStateChange THEN 1 ELSE 0
          /\ onStateChange => last.arg.saw = outputs
    /\ cbEver => initOk

\* C9 witness: the callback has just run on an event and saw the platform's
\* current, non-empty port list.
C9_Witness ==
    /\ last.op = "statechange" /\ last.ret = "true"
    /\ last.arg.calls = 1 /\ last.arg.saw = outputs /\ outputs # <<>>

\* C10: the connected port is null or was in the list at the connect that
\* bound it; platform events never touch it; disconnect() leaves it null; a
\* successful connect replaces it; isConnected() is true exactly when it is
\* not null.
C10_ConnectedPort ==
    /\ [](midiOutput = Null \/ midiOutput \in Range(connectSnapshot))
    /\ [](IsConnected <=> midiOutput \in Ports)
    /\ [][last'.op = "statechange" => midiOutput' = midiOutput]_vars
    /\ [][last'.op = "disconnect" => midiOutput' = Null]_vars
    /\ [][(last'.op = "connect" /\ last'.ret = "true")
          => (/\ last'.arg \in 0..(Len(devices) - 1)
              /\ midiOutput' = devices[last'.arg + 1])]_vars

\* C10 witness: the connected port has disappeared from the rebuilt list.
C10_Witness ==
    /\ last.op = "statechange" /\ last.ret = "true"
    /\ midiOutput # Null /\ midiOutput \notin Range(devices)

\* C7 as stated: disconnect() sets to null the port of every synth that was
\* constructed with the then-connected port.
C7_DisconnectUnbindsSynth ==
    [][last'.op = "disconnect"
       => \A s \in fromManager :
             (midiOutput # Null /\ synthOutput[s] = midiOutput)
                => synthOutput'[s] = Null]_vars

\* C7 amended: disconnect() clears only the manager's own connected port; a
\* synth constructed with the then-connected port keeps its reference, so
\* its later sends and its pending deferred note-offs still write to that
\* port.
C7_DisconnectLeavesSynthBound ==
    /\ [][last'.op = "disconnect"
          => (/\ midiOutput' = Null
              /\ UNCHANGED <<synths, synthOutput, channel, sent, timers>>)]_vars
    /\ [][(last'.op \in {"noteOn", "timer"} /\ last'.synth \in fromManager
             /\ synthOutput[last'.synth] # Null)
          => (/\ Len(sent') = Len(sent) + 1
              /\ sent'[Len(sent')].port = synthOutput[last'.synth])]_vars
    /\ [](\A s \in fromManager : synthOutput[s] \in Ports)

\* C7 witness: after disconnect() the deferred note-off of a synth that was
\* constructed with the connected port has been written to that port.
C7_Witness ==
    /\ last.op = "timer" /\ last.synth \in fromManager
    /\ midiOutput = Null
    /\ sent # <<>>
    /\ sent[Len(sent)].port = synthOutput[last.synth]
    /\ sent[Len(sent)].data[1] = Num(128) + channel[last.synth]
====
